---- MODULE Spec2Model ----
(***************************************************************************)
(* Agent Angus: the song-upload and comment-processing workflows.          *)
(*                                                                         *)
(* The model follows the Python source.  A function decorated with @tool   *)
(* is modelled by its body, whether it is called directly or through       *)
(* .invoke().  The external collaborators (the YouTube client, the OpenAI  *)
(* helpers) are nondeterministic: every call draws its outcome from the    *)
(* set of outcomes the calling code distinguishes.  tools/supabase_tools   *)
(* is not part of the available source; the data store operations are      *)
(* modelled from the data-store contract of the specification (4.1).       *)
(***************************************************************************)
EXTENDS Integers, Sequences, FiniteSets, TLC

\* ------------------------------------------------------------------ bounds
NumSongs == 2
MaxRuns == 2
MaxLimit == 2

Songs == 1..NumSongs
Limits == 1..MaxLimit

Terminal == {"uploaded", "failed", "url_expired"}

\* outcomes of get_song_details as upload_song_to_youtube distinguishes them
DetailOutcomes == {"ok", "error", "no_url"}
\* outcomes of get_youtube_client() followed by youtube_client.upload_video():
\*   "id" a video ID is returned, "URL_EXPIRED" the sentinel string, "none" a
\*   falsy value, "quota" an exception whose text names uploadLimitExceeded,
\*   "raise" any other exception, "no_client" get_youtube_client() raised
UploadOutcomes == {"id", "URL_EXPIRED", "none", "quota", "raise", "no_client"}
\* a data-store call succeeds or fails with StoreUnavailable
StoreOutcomes == {"ok", "raise"}
\* the metadata block of AngusYouTubeUploadTool either falls through to the
\* upload with the stored description ("stored") or one of its calls raises
MetaOutcomes == {"stored", "raise"}

VARIABLES
    status,       \* Song.status in the data store
    videoId,      \* Song's platform video ID in the data store, 0 = None
    uploadCalls,  \* per song: number of youtube_client.upload_video calls
    okUploads,    \* per song: number of upload_video calls that returned an ID
    pc,           \* "idle" or "loop": position of the running upload workflow
    tool,         \* which entry point is running
    songs,        \* the batch fetched by get_pending_songs
    log,          \* one record per loop iteration of the current batch
    ret,          \* what the last workflow call returned
    runs,         \* number of workflow calls started
    batchLimit,   \* song_limit of the running call, 0 when none is running
    lastDetails   \* what get_song_details gave the last upload_song_to_youtube
                  \* call of the running batch

uvars == <<status, videoId, uploadCalls, okUploads, pc, tool, songs, log, ret,
           runs, batchLimit, lastDetails>>

VARIABLES
    feedback,     \* Feedback records in the data store: <<song_id, comment>>
    hasOurReply,  \* comments that carry a reply of ours on the platform
    replyCalls,   \* per comment: number of reply_to_youtube_comment calls
    cruns,        \* number of comment-workflow calls started
    last,         \* the last comment-workflow call and what it has done
    cpc,          \* "idle", "videos" (in comment_processing_workflow's loop)
                  \* or "comments" (in process_video_comments' loop)
    cvideos,      \* the videos comment_processing_workflow fetched
    cdone,        \* how many of them it has processed
    frame         \* the locals of the running process_video_comments call

cvars == <<feedback, hasOurReply, replyCalls, cruns, last, cpc, cvideos,
           cdone, frame>>

VARIABLES
    comment_text,     \* the argument of analyze_comment_sentiment
    sentiment_result, \* what analyze_comment_sentiment returned
    song_data,        \* the argument of suggest_video_tags
    tags_result       \* what suggest_video_tags returned

tvars == <<comment_text, sentiment_result, song_data, tags_result>>

VARIABLES
    executor,     \* AngusLangChainAgent.executor is set
    agentStatus,  \* AngusLangChainAgent.status
    results,      \* what the workflow calls of the agent have returned
    both          \* the results dictionary of run_both_workflows

avars == <<executor, agentStatus, results, both>>

VARIABLES
    loop_pc,           \* position of main_loop
    upload_interval,   \* the arguments of main_loop, in seconds
    comment_interval,
    last_upload_age,   \* time.time() - last_upload_time
    last_comment_age,  \* time.time() - last_comment_time
    current_age,       \* time.time() - current_time
    upload_elapsed,    \* current_time - last_upload_time, as read in line 333
    comment_elapsed,   \* current_time - last_comment_time, as read in line 339
    slept              \* the time the running asyncio.sleep(60) has waited

lvars == <<loop_pc, upload_interval, comment_interval, last_upload_age,
           last_comment_age, current_age, upload_elapsed, comment_elapsed,
           slept>>

VARIABLES
    main_pc,       \* position of an agent's main(): "connect", "prompt",
                   \* "wait", "raised" or "returned"
    attempt,       \* the variable of the for loop over range(max_retries)
    connected,     \* the MultiServerMCPClient context is open
    connect_calls, \* number of connections main() has tried to open
    failures,      \* number of attempts in a row that ended in the except block
    commands,      \* number of lines read by input()
    last_command,  \* the last line read and how its handling ended
    quit_entered   \* the user has entered 'quit'

nvars == <<main_pc, attempt, connected, connect_calls, failures, commands,
           last_command, quit_entered>>

VARIABLES
    sys_pc,        \* position of AgentAngusSystem.start_system / shutdown
    running,       \* AgentAngusSystem.running
    coral_server,  \* self.coral_server is set
    server_up,     \* start_server has returned and stop_server has not
    agent_types,   \* the agent types start_agents was called with
    agents,        \* self.agents: the registered agent types, in dict order
    live,          \* agents whose start() has returned and stop() has not
    failed_start,  \* agents whose start() raised
    stopped,       \* how many entries of self.agents stop_agents has passed
    pending_error, \* an exception start_system will re-raise
    exit_path      \* how start_system left its try block

svars == <<sys_pc, running, coral_server, server_up, agent_types, agents, live,
           failed_start, stopped, pending_error, exit_path>>

VARIABLES
    app_pc,        \* the wrapper: "down", "serving" or "closed"
    flags,         \* MCP_AVAILABLE of the wrapper and of the client module,
                   \* TOOLS_AVAILABLE of the client module
    mcp_client,    \* the global mcp_client is set
    client,        \* status and executor of the AngusMultiServerMCPClient
    init,          \* how initialize() ended and which paths it tried
    requests,      \* number of requests served
    request,       \* the messages of the last chat_completions request
    response,      \* the last response: endpoint, code, status, task
    tasks          \* number of execute_task calls

wvars == <<app_pc, flags, mcp_client, client, init, requests, request,
           response, tasks>>

VARIABLES
    agent_pc,        \* position of main() of 1_langchain_angus_agent.py
    coral_tools,     \* number of tools obtained from the Coral server
    all_tools,       \* number of tools the agent is created with
    invocations,     \* number of agent invocations started
    last_invocation  \* how the last invocation ended

kvars == <<agent_pc, coral_tools, all_tools, invocations, last_invocation>>

zvars == <<svars, wvars, kvars>>

\* the variables of the workflows, the tools, the agent and the clients
base == <<uvars, cvars, tvars, avars, lvars, nvars>>

xvars == <<tvars, avars, lvars, nvars, zvars>>

Min(a, b) == IF a < b THEN a ELSE b

\* ------------------------------------------------------- data store (4.1)
SongOrder == [i \in 1..NumSongs |-> i]

IsPending(s) == status[s] = "pending"

\* listPendingSongs(limit): up to limit songs with status pending, oldest first
get_pending_songs(limit) ==
    LET p == SelectSeq(SongOrder, IsPending)
    IN  SubSeq(p, 1, Min(limit, Len(p)))

\* setSongStatus(songId, status, videoId?): one atomic write
update_song_status(st, s, newStatus) == [st EXCEPT ![s] = newStatus]

update_song_video(vid, s, newVid) ==
    IF newVid = 0 THEN vid ELSE [vid EXCEPT ![s] = newVid]

\* ------------------------------------------- tools/youtube_tools.py:37-116
NoStep == [called |-> FALSE, gotId |-> FALSE, write |-> "none", withId |-> FALSE,
           committed |-> FALSE, raised |-> FALSE]

\* variant: the upload-limit branch of the except block makes no status write
StatusWrite_quota_unmarked(up) ==
    CASE up = "URL_EXPIRED" -> "url_expired"
      [] up = "id"          -> "uploaded"
      [] up = "none"        -> "failed"
      [] OTHER              -> "none"

\* variant: the "URL_EXPIRED" sentinel is not tested and passes for a video ID
StatusWrite_expiry_unchecked(up) ==
    CASE up = "URL_EXPIRED" -> "uploaded"
      [] up = "id"          -> "uploaded"
      [] up = "none"        -> "failed"
      [] up = "quota"       -> "failed"
      [] OTHER              -> "none"

\* the update_song_status call issued for each outcome of upload_video
StatusWrite(up) ==
    CASE up = "URL_EXPIRED" -> "url_expired"
      [] up = "id"          -> "uploaded"
      [] up = "none"        -> "failed"
      [] up = "quota"       -> "failed"
      [] OTHER              -> "none"

\* variant: update_song_status(song_id, "uploaded") without the video ID
WriteWithId_never(up) == FALSE

\* the video ID is passed only with "uploaded"
WriteWithId(up) == up = "id"

\* variant: the video URL is not tested before the upload
has_video_url_unchecked(details) == details # "error"

\* lines 55-63: the song's data was retrieved and holds a video URL
has_video_url(details) == details = "ok"

\* One call of upload_song_to_youtube(song_id): which calls it makes.
\*   called    upload_video was called
\*   gotId     upload_video returned a video ID
\*   write     the status passed to update_song_status ("none": no call)
\*   withId    the video ID was passed to update_song_status
\*   committed the update_song_status call succeeded
\*   raised    the exception left upload_song_to_youtube (a failing
\*             update_song_status inside the except block)
upload_song_to_youtube(details, up, store) ==
    IF ~has_video_url(details) \/ up = "no_client" THEN NoStep
    ELSE [called    |-> TRUE,
          gotId     |-> up = "id",
          write     |-> StatusWrite(up),
          withId    |-> WriteWithId(up),
          committed |-> StatusWrite(up) # "none" /\ store = "ok",
          raised    |-> up = "quota" /\ store = "raise"]

\* The callers test  'video_id' in result  on the returned text and then
\* index the text with result['video_id'].  Indexing a str with a str raises
\* TypeError, so the caller's own update_song_status call is never made.
ResultIsDict == FALSE

caller_updates_status(raised, hasKey) == ~raised /\ hasKey /\ ResultIsDict

\* ------------------------------------------------ the loop over the batch
\* variant: the loop is left at the first upload-limit error
more_until_quota(lg, ss) ==
    Len(lg) < Len(ss) /\ \A k \in 1..Len(lg) : lg[k].up # "quota"

\* variant: an exception of upload_video leaves the loop
more_until_raise(lg, ss) ==
    Len(lg) < Len(ss) /\ \A k \in 1..Len(lg) : lg[k].up # "raise"

\* for song in songs: the loop goes on while a song is left, whatever the
\* earlier iterations did
more(lg, ss) == Len(lg) < Len(ss)

\* variant: every iteration takes the first song of the batch
current_song_first(lg, ss) == ss[1]

\* variant: the batch is worked through from its end
current_song_reversed(lg, ss) == ss[Len(ss) - Len(lg)]

\* the song of the next iteration
current_song(lg, ss) == ss[Len(lg) + 1]

\* ------------------------------------------------ one loop iteration
\* applies upload_song_to_youtube to song s and records the iteration
Iterate(s, meta, details, up, store, hasKey, line) ==
    LET r == IF meta = "raise" THEN NoStep
             ELSE upload_song_to_youtube(details, up, store)
        mark == meta # "raise" /\ caller_updates_status(r.raised, hasKey)
        newVid == IF r.gotId THEN okUploads[s] + 1 ELSE 0
    IN  /\ uploadCalls' = IF r.called THEN [uploadCalls EXCEPT ![s] = @ + 1]
                          ELSE uploadCalls
        /\ okUploads' = IF r.gotId THEN [okUploads EXCEPT ![s] = @ + 1]
                        ELSE okUploads
        /\ status' = IF mark THEN update_song_status(status, s, "uploaded")
                     ELSE IF r.committed THEN update_song_status(status, s, r.write)
                     ELSE status
        /\ videoId' = IF r.committed /\ r.withId
                      THEN update_song_video(videoId, s, newVid)
                      ELSE videoId
        /\ lastDetails' = IF meta = "raise" THEN "not_called" ELSE details
        /\ log' = Append(log, [meta |-> meta,
                               up |-> IF r.called THEN up ELSE "not_called",
                               write |-> r.write,
                               committed |-> r.committed,
                               line |-> line])

\* variant: the loop runs over the pending songs although the fetch failed
pending_songs_despite_failure(fetch, limit) == get_pending_songs(limit)

\* the batch a workflow call works on: an exception of get_pending_songs
\* leaves the call before any song is looked at
pending_songs(fetch, limit) ==
    IF fetch = "raise" THEN <<>> ELSE get_pending_songs(limit)

\* ------------------------------- 1_langchain_angus_agent.py:79-171
\* lines 95-108.  The pending songs come as a list (upload_workflow iterates
\* it), so the test  not pending_result  answers an empty list with "Failed to
\* get pending songs" before the "No pending songs found" test is reached.
AngusYouTubeUploadTool_start ==
    /\ pc = "idle" /\ runs < MaxRuns
    /\ \E song_limit \in Limits, fetch \in StoreOutcomes :
         /\ runs' = runs + 1
         /\ tool' = "AngusYouTubeUploadTool"
         /\ log' = <<>>
         /\ LET got == pending_songs(fetch, song_limit)
            IN  /\ songs' = got
                /\ batchLimit' = IF got = <<>> THEN 0 ELSE song_limit
                /\ lastDetails' = "none"
                /\ pc' = IF got = <<>> THEN "idle" ELSE "loop"
                /\ ret' = IF fetch = "raise" THEN "tool_error"
                          ELSE IF got = <<>> THEN "failed_to_get" ELSE "running"
    /\ UNCHANGED <<status, videoId, uploadCalls, okUploads>>
    /\ UNCHANGED <<cvars, xvars>>

\* the outcome line appended to upload_results: "ok" for the line that
\* reports an upload, "fail" for the two lines that report a failure.  The
\* first is appended after the caller's own update_song_status call.
UploadLine(meta, raised, hasKey) ==
    IF meta # "raise" /\ caller_updates_status(raised, hasKey) THEN "ok" ELSE "fail"

\* lines 116-164: when the metadata step raises, the iteration ends in the
\* except block before upload_song_to_youtube is called, so there is no
\* outcome of its calls to draw
CallsAfter(meta) ==
    IF meta = "raise"
    THEN {[details |-> "not_called", up |-> "not_called", store |-> "not_called",
           hasKey |-> FALSE]}
    ELSE [details : DetailOutcomes, up : UploadOutcomes, store : StoreOutcomes,
          hasKey : BOOLEAN]

AngusYouTubeUploadTool_iter ==
    /\ pc = "loop" /\ tool = "AngusYouTubeUploadTool"
    /\ more(log, songs)
    /\ \E meta \in MetaOutcomes :
         \E c \in CallsAfter(meta) :
            LET r == upload_song_to_youtube(c.details, c.up, c.store)
            IN  Iterate(current_song(log, songs), meta, c.details, c.up, c.store,
                        c.hasKey, UploadLine(meta, r.raised, c.hasKey))
    /\ UNCHANGED <<pc, tool, songs, ret, runs, batchLimit>>
    /\ UNCHANGED <<cvars, xvars>>

AngusYouTubeUploadTool_return ==
    /\ pc = "loop" /\ tool = "AngusYouTubeUploadTool"
    /\ ~more(log, songs)
    /\ pc' = "idle" /\ ret' = "completed" /\ batchLimit' = 0
    /\ lastDetails' = "none"
    /\ UNCHANGED <<status, videoId, uploadCalls, okUploads, tool, songs, log, runs>>
    /\ UNCHANGED <<cvars, xvars>>

\* ------------------------------- agents/angus_coral_client.py:61-98
upload_workflow_start ==
    /\ pc = "idle" /\ runs < MaxRuns
    /\ \E song_limit \in Limits, fetch \in StoreOutcomes :
         /\ runs' = runs + 1
         /\ tool' = "upload_workflow"
         /\ log' = <<>>
         /\ LET got == pending_songs(fetch, song_limit)
            IN  /\ songs' = got
                /\ batchLimit' = IF got = <<>> THEN 0 ELSE song_limit
                /\ lastDetails' = "none"
                /\ pc' = IF got = <<>> THEN "idle" ELSE "loop"
                /\ ret' = IF fetch = "raise" THEN "workflow_failed"
                          ELSE IF got = <<>> THEN "nothing" ELSE "running"
    /\ UNCHANGED <<status, videoId, uploadCalls, okUploads>>
    /\ UNCHANGED <<cvars, xvars>>

upload_workflow_iter ==
    /\ pc = "loop" /\ tool = "upload_workflow"
    /\ more(log, songs)
    /\ \E details \in DetailOutcomes, up \in UploadOutcomes,
          store \in StoreOutcomes, hasKey \in BOOLEAN :
         LET r == upload_song_to_youtube(details, up, store)
         IN  \* "ok": uploaded_count += 1 (line 88), after the caller's own
             \* update_song_status call
             Iterate(current_song(log, songs), "stored", details, up, store, hasKey,
                     UploadLine("stored", r.raised, hasKey))
    /\ UNCHANGED <<pc, tool, songs, ret, runs, batchLimit>>
    /\ UNCHANGED <<cvars, xvars>>

upload_workflow_return ==
    /\ pc = "loop" /\ tool = "upload_workflow"
    /\ ~more(log, songs)
    /\ pc' = "idle" /\ ret' = "completed" /\ batchLimit' = 0
    /\ lastDetails' = "none"
    /\ UNCHANGED <<status, videoId, uploadCalls, okUploads, tool, songs, log, runs>>
    /\ UNCHANGED <<cvars, xvars>>

UInit ==
    /\ status = [s \in Songs |-> "pending"]
    /\ videoId = [s \in Songs |-> 0]
    /\ uploadCalls = [s \in Songs |-> 0]
    /\ okUploads = [s \in Songs |-> 0]
    /\ pc = "idle" /\ tool = "none" /\ songs = <<>> /\ log = <<>>
    /\ ret = "none" /\ runs = 0 /\ batchLimit = 0 /\ lastDetails = "none"

\* =================================================== comment workflow
NumVideos == 1
NumComments == 2
MaxCommentRuns == 2
MaxReplies == 1
\* process_video_comments(video_id, song_id=None, max_replies=10)
DefaultMaxReplies == 10

Videos == 1..NumVideos
\* a comment is identified by its video and its position in the fetched list
Comments == Videos \X (1..NumComments)
VideoOrder == [i \in 1..NumVideos |-> i]

\* the reply limit comment_processing_workflow is called with
ReplyLimits == {MaxReplies}

\* the song_id under which feedback is looked up and stored: the song that
\* owns the video, or whatever the caller passed in the song_id position
SongKey(v) == <<"song", v>>
ArgKey(n) == <<"arg", n>>

\* generate_comment_response: the generated text, or an error text ("Failed to
\* generate response", "Error generating comment response: ...")
GenOutcomes == {"text", "error"}
\* reply_to_youtube_comment: a reply ID, or a text starting with "Error"
ReplyOutcomes == {"id", "error"}
\* the outcomes of the three calls made for one comment; a raising
\* store_feedback ends the comment's block before the other two are made
CommentOutcomes ==
    {[store |-> "raise", gen |-> "not_called", reply |-> "not_called"]}
    \cup [store : {"ok"}, gen : GenOutcomes, reply : ReplyOutcomes]
\* what precedes the loop of process_video_comments: "ok", or the video has no
\* row in the youtube table, fetch_youtube_comments returned no comment, or
\* get_song_details / get_existing_feedback raised
PreOutcomes == {"ok", "no_song", "no_comments", "store_raise"}

\* ------------------------------------------------------- data store (4.1)
\* getExistingFeedback(songId): the comment ids that have a record
get_existing_feedback(fb, key) == {c \in Comments : <<key, c>> \in fb}

\* saveFeedback: fails with Conflict if the record exists
store_feedback_ok(fb, key, c, outcome) == outcome = "ok" /\ <<key, c>> \notin fb

store_feedback(fb, key, c) == fb \cup {<<key, c>>}

\* listUploadedVideos(limit)
get_uploaded_videos(limit) == SubSeq(VideoOrder, 1, Min(limit, NumVideos))

\* ------------------------------------------- tools/ai_tools.py:62-93
\* generate_comment_response returns a non-empty text for every outcome
response_text(gen) == gen \in {"text", "error"}

\* ------------------------------------------- tools/youtube_tools.py:235-323
\* line 267: max_results=100
FetchMax == 100

\* variant: the fetch is limited to the reply budget of the call
max_results_budget(max_replies) == Min(max_replies, FetchMax)

\* line 267: fetch_youtube_comments(video_id, max_results=100), whatever
\* max_replies is
max_results(max_replies) == FetchMax

\* lines 119-142: the number of comments returned, at most max_results
fetch_youtube_comments(requested) == Min(requested, NumComments)

NoFrame == [caller |-> "none", video |-> 0, key |-> <<"none", 0>>, max |-> 0,
            requested |-> 0, n |-> 0, existing |-> {}, k |-> 0, count |-> 0]

\* the locals after lines 247-282
EnterFrame(caller, v, key, max_replies) ==
    [caller |-> caller, video |-> v, key |-> key, max |-> max_replies,
     requested |-> max_results(max_replies),
     n |-> fetch_youtube_comments(max_results(max_replies)),
     existing |-> get_existing_feedback(feedback, key), k |-> 1, count |-> 0]

\* variant: the existing-feedback guard is missing
already_processed_flag_only(c, existing, flagged) == c \in flagged

\* lines 290-296: the two guards
already_processed(c, existing, flagged) == c \in existing \/ c \in flagged

\* variant: the record is saved after the reply, and only for a posted one
feedback_saved_after_reply(storeOk, reply) == storeOk /\ reply = "id"

\* lines 299-301: store_feedback is called first, before the response is
\* generated and the reply is made, so the record does not depend on them
feedback_saved(storeOk, reply) == storeOk

\* variant: processed_count is incremented for every reply call
reply_succeeded_any(reply) == TRUE

\* lines 310-311: reply_id and not reply_id.startswith("Error")
reply_succeeded(reply) == reply = "id"

\* variant: an exception or a failed reply ends the loop over the comments
next_comment_unless_failed(k, o) ==
    IF o.store = "raise" \/ o.reply = "error" THEN NumComments + 1 ELSE k + 1

\* lines 298-315: the try block is inside the loop, so the loop goes on to
\* the next comment whatever the calls made for this one did
next_comment(k, o) == k + 1

\* lines 290-296: a comment that is skipped (continue) makes none of the
\* three calls, so there is no outcome to draw for it
NoCalls == [store |-> "not_called", gen |-> "not_called", reply |-> "not_called"]

CallOutcomesFor(c) ==
    IF already_processed(c, frame.existing, hasOurReply) THEN {NoCalls}
    ELSE CommentOutcomes

\* lines 283-315: the body of the loop for the comment at frame.k
process_comment ==
    /\ cpc = "comments"
    /\ frame.k <= frame.n /\ frame.count < frame.max
    /\ \E o \in CallOutcomesFor(<<frame.video, frame.k>>) :
         LET c == <<frame.video, frame.k>>
             skip == already_processed(c, frame.existing, hasOurReply)
             storeOk == ~skip /\ store_feedback_ok(feedback, frame.key, c, o.store)
             stored == feedback_saved(storeOk, o.reply)
             called == storeOk /\ response_text(o.gen)
             posted == called /\ o.reply = "id"
             counted == called /\ reply_succeeded(o.reply)
         IN  /\ feedback' = IF stored THEN store_feedback(feedback, frame.key, c)
                            ELSE feedback
             /\ replyCalls' = IF called THEN [replyCalls EXCEPT ![c] = @ + 1]
                              ELSE replyCalls
             /\ hasOurReply' = IF posted THEN hasOurReply \cup {c} ELSE hasOurReply
             /\ frame' = [frame EXCEPT !.k = next_comment(@, o),
                                       !.count = IF counted THEN @ + 1 ELSE @]
             /\ last' = [last EXCEPT
                           !.skipped = @ \/ skip,
                           !.stores = @ \/ ~skip,
                           !.newFeedback = @ \/ stored,
                           !.newCalls = @ \/ called,
                           !.errorReply = @ \/ (called /\ o.gen = "error"),
                           !.newReplies = IF posted THEN @ + 1 ELSE @]
    /\ UNCHANGED <<cruns, cpc, cvideos, cdone>>
    /\ UNCHANGED <<uvars, xvars>>

\* lines 284-285 and 317-318: the loop ends and processed_count is returned,
\* to the agent or to comment_processing_workflow (lines 123-125)
process_video_comments_return ==
    /\ cpc = "comments"
    /\ frame.k > frame.n \/ frame.count >= frame.max
    /\ IF frame.caller = "workflow"
       THEN /\ cpc' = "videos"
            /\ cdone' = cdone + 1
            /\ last' = [last EXCEPT !.result = IF frame.count > 0 THEN @ + 1 ELSE @]
       ELSE /\ cpc' = "idle"
            /\ cdone' = cdone
            /\ last' = [last EXCEPT !.result = frame.count]
    /\ frame' = NoFrame
    /\ UNCHANGED <<feedback, hasOurReply, replyCalls, cruns, cvideos>>
    /\ UNCHANGED <<uvars, xvars>>

\* every comment the call looks at already has a record under its song_id
AllRecorded(vs, key) ==
    \A i \in 1..Len(vs) : \A k \in 1..NumComments : <<key, <<vs[i], k>>>> \in feedback

\* the record of a call that starts: its arguments, whether the call before it
\* was the same call, and what it has done so far (skipped a comment, called
\* store_feedback, saved a record, called reply_to_youtube_comment, made
\* a reply call carrying the text of a failed generation; the number of
\* replies posted; the max_results of the fetch made by the tool class)
NewCall(t, arg, recorded) ==
    [tool |-> t, arg |-> arg, repeat |-> last.tool = t /\ last.arg = arg,
     result |-> 0, allRecorded |-> recorded,
     skipped |-> FALSE, stores |-> FALSE, newFeedback |-> FALSE,
     newCalls |-> FALSE, errorReply |-> FALSE, newReplies |-> 0,
     requested |-> 0]

\* the tool called by the agent on one video, song_id left to be looked up
process_video_comments_call ==
    /\ cpc = "idle" /\ cruns < MaxCommentRuns
    /\ \E v \in Videos, max_replies \in 1..MaxReplies, pre \in PreOutcomes :
         /\ last' = NewCall("process_video_comments", <<v, max_replies>>,
                            AllRecorded(<<v>>, SongKey(v)))
         /\ IF pre = "ok"
            THEN cpc' = "comments" /\ frame' = EnterFrame("tool", v, SongKey(v), max_replies)
            ELSE cpc' = "idle" /\ frame' = NoFrame
    /\ cruns' = cruns + 1
    /\ UNCHANGED <<feedback, hasOurReply, replyCalls, cvideos, cdone>>
    /\ UNCHANGED <<uvars, xvars>>

\* ------------------------------- agents/angus_coral_client.py:100-133
comment_processing_workflow_start ==
    /\ cpc = "idle" /\ cruns < MaxCommentRuns
    /\ \E reply_limit \in ReplyLimits, list \in StoreOutcomes :
         LET vs == IF list = "raise" THEN <<>> ELSE get_uploaded_videos(reply_limit)
         IN  /\ last' = [NewCall("comment_processing_workflow", <<reply_limit, 0>>,
                                 AllRecorded(get_uploaded_videos(reply_limit),
                                             ArgKey(reply_limit)))
                          EXCEPT !.result = IF list = "raise" THEN -1 ELSE 0]
             /\ cvideos' = vs
             /\ cpc' = IF vs = <<>> THEN "idle" ELSE "videos"
    /\ cdone' = 0
    /\ cruns' = cruns + 1
    /\ UNCHANGED <<feedback, hasOurReply, replyCalls, frame>>
    /\ UNCHANGED <<uvars, xvars>>

\* line 122: process_video_comments(video['video_id'], reply_limit) binds
\* reply_limit to song_id and leaves max_replies at its default
comment_processing_workflow_iter ==
    /\ cpc = "videos" /\ cdone < Len(cvideos)
    /\ \E pre \in PreOutcomes \ {"no_song"} :
         IF pre = "ok"
         THEN /\ cpc' = "comments"
              /\ frame' = EnterFrame("workflow", cvideos[cdone + 1],
                                     ArgKey(last.arg[1]), DefaultMaxReplies)
              /\ cdone' = cdone
         ELSE /\ cpc' = "videos" /\ frame' = NoFrame /\ cdone' = cdone + 1
    /\ UNCHANGED <<feedback, hasOurReply, replyCalls, cruns, last, cvideos>>
    /\ UNCHANGED <<uvars, xvars>>

comment_processing_workflow_return ==
    /\ cpc = "videos" /\ cdone = Len(cvideos)
    /\ cpc' = "idle"
    /\ UNCHANGED <<feedback, hasOurReply, replyCalls, cruns, last, cvideos,
                   cdone, frame>>
    /\ UNCHANGED <<uvars, xvars>>

\* ------------------------------- 1_langchain_angus_agent.py:173-288
\* line 219: the page size of the tool class
ToolPageSize == 10

\* line 219: min(comment_limit - comments_processed, 10)
tool_max_results(comment_limit, comments_processed) ==
    Min(comment_limit - comments_processed, ToolPageSize)

\* fetch_youtube_comments returns a list: an empty one is reported as a
\* failed fetch, and a non-empty one has no .get, so the AttributeError ends
\* the video's block before any comment is looked at
AngusCommentProcessingTool ==
    /\ cpc = "idle" /\ cruns < MaxCommentRuns
    /\ \E comment_limit \in Limits, list \in StoreOutcomes :
         last' = [NewCall("AngusCommentProcessingTool", <<comment_limit, 0>>, FALSE)
                  EXCEPT !.result = IF list = "raise" THEN -1 ELSE 0,
                         !.requested = IF list = "raise" THEN 0
                                       ELSE tool_max_results(comment_limit, 0)]
    /\ cruns' = cruns + 1
    /\ UNCHANGED <<feedback, hasOurReply, replyCalls, cpc, cvideos, cdone, frame>>
    /\ UNCHANGED <<uvars, xvars>>

CInit ==
    /\ feedback = {}
    /\ hasOurReply = {}
    /\ replyCalls = [c \in Comments |-> 0]
    /\ cruns = 0
    /\ last = [tool |-> "none", arg |-> <<0, 0>>, repeat |-> FALSE, result |-> 0,
               allRecorded |-> FALSE, skipped |-> FALSE, stores |-> FALSE,
               newFeedback |-> FALSE, newCalls |-> FALSE, errorReply |-> FALSE,
               newReplies |-> 0, requested |-> 0]
    /\ cpc = "idle" /\ cvideos = <<>> /\ cdone = 0 /\ frame = NoFrame

\* =================================================== tools/ai_tools.py
\* ------------------------------------------- analyze_comment_sentiment
positive_words == {"good", "great", "awesome", "love", "amazing", "fantastic",
                   "excellent"}
negative_words == {"bad", "terrible", "hate", "awful", "horrible", "worst", "sucks"}

\* the largest number of listed words in a comment
MaxWords == 5

\* A comment text is represented by the listed words that occur in its
\* lower-cased form, which is all the function reads of it.  isStr is FALSE
\* for an argument that is not a text (None: a comment without a text).
CommentTexts ==
    {[isStr |-> FALSE, words |-> {}]}
    \cup {[isStr |-> TRUE, words |-> w] :
            w \in {s \in SUBSET (positive_words \cup negative_words) :
                     Cardinality(s) <= MaxWords}}

\* the key "confidence" is missing from the returned dictionary
NoConfidence == -1

\* lines 148-192; the confidence is in hundredths.  comment_text[:50] raises
\* for an argument that is not a text, and the except block answers.
analyze_comment_sentiment(text) ==
    IF ~text.isStr
    THEN [sentiment |-> "error", confidence |-> NoConfidence]
    ELSE LET positive_count == Cardinality(text.words \cap positive_words)
             negative_count == Cardinality(text.words \cap negative_words)
         IN  IF positive_count > negative_count
             THEN [sentiment |-> "positive",
                   confidence |-> Min(90, 50 + (positive_count - negative_count) * 10)]
             ELSE IF negative_count > positive_count
             THEN [sentiment |-> "negative",
                   confidence |-> Min(90, 50 + (negative_count - positive_count) * 10)]
             ELSE [sentiment |-> "neutral", confidence |-> 50]

NoSentiment == [sentiment |-> "not_run", confidence |-> NoConfidence]

analyze_comment_sentiment_call ==
    /\ sentiment_result = NoSentiment
    /\ sentiment_result' = analyze_comment_sentiment(comment_text)
    /\ UNCHANGED <<comment_text, song_data, tags_result>>
    /\ UNCHANGED <<uvars, cvars, avars, lvars, nvars, zvars>>

\* ------------------------------------------- suggest_video_tags
\* the longest run of style pieces taken from StylePool
MaxStyleRun == 6
\* unique_tags = list(dict.fromkeys(tags))[:10]
TagCap == 10

\* The style text is represented by its comma-separated pieces; a piece is
\* its text without the surrounding blanks and whether it had any.
StylePool ==
    << [text |-> "rock", padded |-> FALSE], [text |-> "rock", padded |-> TRUE],
       [text |-> "", padded |-> TRUE],      [text |-> "song", padded |-> FALSE],
       [text |-> "music", padded |-> FALSE], [text |-> "pop", padded |-> TRUE],
       [text |-> "jazz", padded |-> FALSE],  [text |-> "folk", padded |-> FALSE],
       [text |-> "blues", padded |-> FALSE], [text |-> "soul", padded |-> TRUE] >>

StyleRuns ==
    {<<>>} \cup {SubSeq(StylePool, a, b) :
                   a \in 1..Len(StylePool),
                   b \in 1..Len(StylePool)}

BoundedRuns == {r \in StyleRuns : Len(r) <= MaxStyleRun}

\* the title by what the function reads of it: whether its lower-cased form
\* contains 'ai', contains 'generated', or the title is None
Titles == {"plain", "ai", "generated", "None"}

\* style: a text of pieces, or a value that is not a text; a style of None
\* reads as no style
SongData ==
    [styleIsStr : {TRUE}, style : {r \o s : r \in BoundedRuns, s \in BoundedRuns},
     title : Titles]
    \cup [styleIsStr : {FALSE}, style : {<<>>}, title : Titles]

strip(piece) == piece.text

RECURSIVE style_tags(_)
\* [tag.strip() for tag in style.split(',') if tag.strip()]
style_tags(pieces) ==
    IF pieces = <<>> THEN <<>>
    ELSE IF strip(Head(pieces)) = "" THEN style_tags(Tail(pieces))
    ELSE <<strip(Head(pieces))>> \o style_tags(Tail(pieces))

generic_tags == <<"music", "song", "audio">>

ai_tags(title) ==
    IF title \in {"ai", "generated"} THEN <<"ai music", "generated music">> ELSE <<>>

RECURSIVE fromkeys(_, _)
\* list(dict.fromkeys(tags)): the first occurrence of every tag, in order
fromkeys(tags, seen) ==
    IF tags = <<>> THEN <<>>
    ELSE IF Head(tags) \in seen THEN fromkeys(Tail(tags), seen)
    ELSE <<Head(tags)>> \o fromkeys(Tail(tags), seen \cup {Head(tags)})

\* variant: the slice [:10] is missing
unique_tags_uncapped(tags) == fromkeys(tags, {})

\* line 273
unique_tags(tags) ==
    LET u == fromkeys(tags, {}) IN SubSeq(u, 1, Min(TagCap, Len(u)))

\* the call raises inside the try block: style.split for a style that is not
\* a text, title.lower() for a title of None
tags_raises(data) == ~data.styleIsStr \/ data.title = "None"

\* lines 252-281
suggest_video_tags(data) ==
    IF tags_raises(data) THEN <<"music", "song">>
    ELSE unique_tags(style_tags(data.style) \o generic_tags \o ai_tags(data.title))

NoTags == [done |-> FALSE, tags |-> <<>>]

suggest_video_tags_call ==
    /\ ~tags_result.done
    /\ tags_result' = [done |-> TRUE, tags |-> suggest_video_tags(song_data)]
    /\ UNCHANGED <<comment_text, sentiment_result, song_data>>
    /\ UNCHANGED <<uvars, cvars, avars, lvars, nvars, zvars>>

TInit ==
    /\ comment_text = [isStr |-> TRUE, words |-> {}]
    /\ sentiment_result = NoSentiment
    /\ song_data = [styleIsStr |-> TRUE, style |-> <<>>, title |-> "plain"]
    /\ tags_result = NoTags

\* =================================== agents/angus_langchain_agent.py
\* the most workflow calls made on one agent
MaxAgentCalls == 3

\* what AgentExecutor.ainvoke does: returns a dictionary with an "output"
\* key, returns one without it, or raises
InvokeOutcomes == {"output", "no_output", "raise"}

\* lines 53-91: initialize() builds the executor, or sets status "error" and
\* re-raises
initialize ==
    /\ \E built \in BOOLEAN :
         IF built
         THEN executor' = TRUE /\ agentStatus' = "initialized"
         ELSE executor' = executor /\ agentStatus' = "error"
    /\ UNCHANGED <<results, both>>
    /\ UNCHANGED <<uvars, cvars, tvars, lvars, nvars, zvars>>

\* lines 137-163: the text execute_task returns, or that it raised.  The
\* missing executor is tested outside the try block; an exception of ainvoke
\* is caught and turned into the returned text.
execute_task(hasExecutor, outcome) ==
    IF ~hasExecutor THEN [raised |-> TRUE, text |-> "Agent not initialized"]
    ELSE [raised |-> FALSE,
          text |-> CASE outcome = "output"    -> "output"
                     [] outcome = "no_output" -> "No output generated"
                     [] outcome = "raise"     -> "Task execution failed"]

\* lines 187-203 and 234-250: the dictionary a workflow call returns
workflow_result(workflow, task) ==
    IF task.raised
    THEN [status |-> "error", workflow |-> workflow, text |-> task.text]
    ELSE [status |-> "completed", workflow |-> workflow, text |-> task.text]

run_song_upload_workflow ==
    /\ Len(results) < MaxAgentCalls
    /\ \E limit \in Limits, outcome \in InvokeOutcomes :
         results' = Append(results,
                           workflow_result("song_upload",
                                           execute_task(executor, outcome)))
    /\ UNCHANGED <<executor, agentStatus, both>>
    /\ UNCHANGED <<uvars, cvars, tvars, lvars, nvars, zvars>>

run_comment_processing_workflow ==
    /\ Len(results) < MaxAgentCalls
    /\ \E max_replies \in 1..MaxReplies, outcome \in InvokeOutcomes :
         results' = Append(results,
                           workflow_result("comment_processing",
                                           execute_task(executor, outcome)))
    /\ UNCHANGED <<executor, agentStatus, both>>
    /\ UNCHANGED <<uvars, cvars, tvars, lvars, nvars, zvars>>

\* lines 253-306: run_both_workflows
NoBoth == [pc |-> "idle", upload_workflow |-> "None", comment_workflow |-> "None",
           overall_status |-> "none"]

\* variant: one completed workflow is enough for "completed"
overall_status_any(upload_success, comment_success) ==
    IF upload_success \/ comment_success THEN "completed" ELSE "failed"

\* lines 288-294
overall_status(upload_success, comment_success) ==
    IF upload_success /\ comment_success THEN "completed"
    ELSE IF upload_success \/ comment_success THEN "partial_success"
    ELSE "failed"

\* lines 266-278: the results dictionary is created with overall_status
\* "running" and the upload workflow is awaited
run_both_workflows_upload ==
    /\ both.pc # "upload_done" /\ Len(results) + 2 <= MaxAgentCalls
    /\ \E outcome \in InvokeOutcomes :
         LET upload_result == workflow_result("song_upload",
                                              execute_task(executor, outcome))
         IN  /\ results' = Append(results, upload_result)
             /\ both' = [pc |-> "upload_done",
                         upload_workflow |-> upload_result.status,
                         comment_workflow |-> "None",
                         overall_status |-> "running"]
    /\ UNCHANGED <<executor, agentStatus>>
    /\ UNCHANGED <<uvars, cvars, tvars, lvars, nvars, zvars>>

\* lines 280-297: after the sleep the comment workflow is awaited and the
\* overall status is set
run_both_workflows_comment ==
    /\ both.pc = "upload_done"
    /\ \E outcome \in InvokeOutcomes :
         LET comment_result == workflow_result("comment_processing",
                                               execute_task(executor, outcome))
         IN  /\ results' = Append(results, comment_result)
             /\ both' = [both EXCEPT
                           !.pc = "returned",
                           !.comment_workflow = comment_result.status,
                           !.overall_status =
                               overall_status(both.upload_workflow = "completed",
                                              comment_result.status = "completed")]
    /\ UNCHANGED <<executor, agentStatus>>
    /\ UNCHANGED <<uvars, cvars, tvars, lvars, nvars, zvars>>

\* lines 34-51: __init__
AInit ==
    /\ executor = FALSE
    /\ agentStatus = "not_initialized"
    /\ results = <<>>
    /\ both = NoBoth

\* ------------------------------------------------ main_loop, lines 308-351
\* the clock advances in steps of Tick seconds
Tick == 30
MaxInterval == 3
\* line 344: asyncio.sleep(60)
SleepTime == 60

Intervals == {Tick * k : k \in 1..MaxInterval}

\* ages beyond the largest interval are not told apart
MaxAge == Tick * (MaxInterval + 1)

age(t) == Min(t + Tick, MaxAge)

\* variant: a workflow is run only when more than the interval has passed
due_strict(elapsed, interval) == elapsed > interval

\* lines 333 and 339: current_time - last_..._time >= ..._interval
due(elapsed, interval) == elapsed >= interval

\* lines 317-324: the initial run of both workflows starts
main_loop ==
    /\ loop_pc = "start"
    /\ loop_pc' = "initial"
    /\ upload_interval' \in Intervals
    /\ comment_interval' \in Intervals
    /\ UNCHANGED <<last_upload_age, last_comment_age, current_age,
                   upload_elapsed, comment_elapsed, slept>>
    /\ UNCHANGED <<uvars, cvars, tvars, avars, nvars, zvars>>

\* lines 324-327: run_both_workflows has returned (it catches every
\* Exception), and both times are set to the time of its return
initial_workflows_done ==
    /\ loop_pc = "initial"
    /\ loop_pc' = "read"
    /\ last_upload_age' = 0
    /\ last_comment_age' = 0
    /\ UNCHANGED <<upload_interval, comment_interval, current_age,
                   upload_elapsed, comment_elapsed, slept>>
    /\ UNCHANGED <<uvars, cvars, tvars, avars, nvars, zvars>>

\* line 330: current_time = time.time()
read_time ==
    /\ loop_pc = "read"
    /\ loop_pc' = "upload_check"
    /\ current_age' = 0
    /\ upload_elapsed' = last_upload_age
    /\ comment_elapsed' = last_comment_age
    /\ UNCHANGED <<upload_interval, comment_interval, last_upload_age,
                   last_comment_age, slept>>
    /\ UNCHANGED <<uvars, cvars, tvars, avars, nvars, zvars>>

\* lines 333-335: the upload workflow is started, or passed over
upload_check ==
    /\ loop_pc = "upload_check"
    /\ loop_pc' = IF due(upload_elapsed, upload_interval) THEN "upload_run"
                  ELSE "comment_check"
    /\ UNCHANGED <<upload_interval, comment_interval, last_upload_age,
                   last_comment_age, current_age, upload_elapsed,
                   comment_elapsed, slept>>
    /\ UNCHANGED <<uvars, cvars, tvars, avars, nvars, zvars>>

\* lines 335-336: run_song_upload_workflow has returned (its result is
\* dropped); last_upload_time = current_time
upload_done ==
    /\ loop_pc = "upload_run"
    /\ loop_pc' = "comment_check"
    /\ last_upload_age' = current_age
    /\ UNCHANGED <<upload_interval, comment_interval, last_comment_age,
                   current_age, upload_elapsed, comment_elapsed, slept>>
    /\ UNCHANGED <<uvars, cvars, tvars, avars, nvars, zvars>>

\* lines 339-341
comment_check ==
    /\ loop_pc = "comment_check"
    /\ IF due(comment_elapsed, comment_interval)
       THEN loop_pc' = "comment_run" /\ slept' = slept
       ELSE loop_pc' = "sleep" /\ slept' = 0
    /\ UNCHANGED <<upload_interval, comment_interval, last_upload_age,
                   last_comment_age, current_age, upload_elapsed,
                   comment_elapsed>>
    /\ UNCHANGED <<uvars, cvars, tvars, avars, nvars, zvars>>

\* lines 341-344: last_comment_time = current_time, then asyncio.sleep(60)
comment_done ==
    /\ loop_pc = "comment_run"
    /\ loop_pc' = "sleep"
    /\ slept' = 0
    /\ last_comment_age' = current_age
    /\ UNCHANGED <<upload_interval, comment_interval, last_upload_age,
                   current_age, upload_elapsed, comment_elapsed>>
    /\ UNCHANGED <<uvars, cvars, tvars, avars, nvars, zvars>>

\* line 344: the sleep returns once 60 seconds have passed
sleep_done ==
    /\ loop_pc = "sleep" /\ slept >= SleepTime
    /\ loop_pc' = "read"
    /\ UNCHANGED <<upload_interval, comment_interval, last_upload_age,
                   last_comment_age, current_age, upload_elapsed,
                   comment_elapsed, slept>>
    /\ UNCHANGED <<uvars, cvars, tvars, avars, nvars, zvars>>

\* the clock advances while main_loop waits for a workflow or sleeps
tick ==
    /\ loop_pc \in {"initial", "upload_run", "comment_run", "sleep"}
    /\ last_upload_age' = age(last_upload_age)
    /\ last_comment_age' = age(last_comment_age)
    /\ current_age' = age(current_age)
    /\ slept' = IF loop_pc = "sleep" THEN Min(slept + Tick, SleepTime + Tick)
                ELSE slept
    /\ UNCHANGED <<loop_pc, upload_interval, comment_interval, upload_elapsed,
                   comment_elapsed>>
    /\ UNCHANGED <<uvars, cvars, tvars, avars, nvars, zvars>>

\* lines 346-347: KeyboardInterrupt at one of the awaits ends the loop
interrupt ==
    /\ loop_pc \in {"upload_run", "comment_run", "sleep"}
    /\ loop_pc' = "interrupted"
    /\ UNCHANGED <<upload_interval, comment_interval, last_upload_age,
                   last_comment_age, current_age, upload_elapsed,
                   comment_elapsed, slept>>
    /\ UNCHANGED <<uvars, cvars, tvars, avars, nvars, zvars>>

\* lines 319-320: last_upload_time = 0, last_comment_time = 0
LInit ==
    /\ loop_pc = "start"
    /\ upload_interval = Tick /\ comment_interval = Tick
    /\ last_upload_age = MaxAge /\ last_comment_age = MaxAge
    /\ current_age = 0 /\ upload_elapsed = 0 /\ comment_elapsed = 0
    /\ slept = 0

\* =================================== agents/angus_coral_client.py: main()
\* (angus_coordinator_agent.py, angus_youtube_agent.py, angus_database_agent.py
\* and angus_ai_agent.py have the same loops around their own commands)
\* line 201
max_retries == 3
MaxCommands == 3

\* what input() returns, or the KeyboardInterrupt raised at the prompt
Inputs == {"quit", "status", "upload", "upload 3", "upload x", "query",
           "KeyboardInterrupt"}

\* lines 521-522: int(parts[1]) if len(parts) > 1 else 5 raises ValueError
\* for a limit that is not a number
limit_parses(user_input) == user_input # "upload x"

\* the commands that call agent_executor.ainvoke
invokes_agent(user_input) == user_input \in {"upload", "upload 3", "query"}

\* lines 469-580: how the handling of one line ends
command_result(user_input, invoke) ==
    IF user_input \in {"quit", "KeyboardInterrupt"} THEN "break"
    ELSE IF ~limit_parses(user_input) THEN "error"
    ELSE IF invokes_agent(user_input) /\ invoke = "raise" THEN "error"
    ELSE "ok"

\* variant: the inner try block is missing, so the error of a command reaches
\* the except block of the connection attempt
after_command_unguarded(result) ==
    CASE result = "break" -> "leave"
      [] result = "error" -> "except"
      [] OTHER            -> "prompt"

\* lines 575-580: break leaves the while loop; an Exception is logged and
\* printed inside the loop, which goes on to the next input()
after_command(result) ==
    CASE result = "break" -> "leave"
      [] OTHER            -> "prompt"

\* variant: the last attempt waits and retries as well
retry_always(n) == n < max_retries

\* line 584: if attempt < max_retries - 1
retry(n) == n < max_retries - 1

\* the next iteration of for attempt in range(max_retries), or the end of
\* main() when the range is used up
next_attempt(n) == IF n + 1 < max_retries THEN "connect" ELSE "returned"

\* lines 582-590: the except block of one attempt
connection_error ==
    /\ main_pc' = IF retry(attempt) THEN "wait" ELSE "raised"
    /\ failures' = failures + 1
    /\ connected' = FALSE
    /\ attempt' = attempt

\* lines 204-467: the connection is opened and the agent is built; an
\* exception of either step is handled by the except block of the attempt
connect ==
    /\ main_pc = "connect"
    /\ connect_calls' = connect_calls + 1
    /\ \E outcome \in {"ok", "connect_fails", "setup_fails"} :
         IF outcome = "ok"
         THEN /\ main_pc' = "prompt" /\ connected' = TRUE /\ failures' = 0
              /\ attempt' = attempt
         ELSE connection_error
    /\ UNCHANGED <<commands, last_command, quit_entered>>
    /\ UNCHANGED <<uvars, cvars, tvars, avars, lvars, zvars>>

\* lines 469-580: one pass of the while loop.  After break the async with
\* block and the try block end without an exception, and the for loop goes
\* on to its next attempt.
command ==
    /\ main_pc = "prompt" /\ commands < MaxCommands
    /\ \E user_input \in Inputs, invoke \in {"ok", "raise"} :
         LET result == command_result(user_input, invoke)
             to == after_command(result)
         IN  /\ last_command' = [input |-> user_input, result |-> result]
             /\ quit_entered' = (quit_entered \/ user_input = "quit")
             /\ CASE to = "prompt" ->
                       /\ main_pc' = "prompt"
                       /\ UNCHANGED <<attempt, connected, failures>>
                  [] to = "leave" ->
                       /\ main_pc' = next_attempt(attempt)
                       /\ attempt' = attempt + 1
                       /\ connected' = FALSE
                       /\ failures' = 0
                  [] to = "except" -> connection_error
    /\ commands' = commands + 1
    /\ UNCHANGED connect_calls
    /\ UNCHANGED <<uvars, cvars, tvars, avars, lvars, zvars>>

\* lines 585-587: asyncio.sleep(5), then continue
retry_connection ==
    /\ main_pc = "wait"
    /\ main_pc' = next_attempt(attempt)
    /\ attempt' = attempt + 1
    /\ UNCHANGED <<connected, connect_calls, failures, commands, last_command,
                   quit_entered>>
    /\ UNCHANGED <<uvars, cvars, tvars, avars, lvars, zvars>>

NInit ==
    /\ main_pc = "connect" /\ attempt = 0 /\ connected = FALSE
    /\ connect_calls = 0 /\ failures = 0 /\ commands = 0
    /\ last_command = [input |-> "none", result |-> "none"]
    /\ quit_entered = FALSE

\* =================================================== main.py
MaxAgents == 3

\* lines 84-85: the default of agent_types
AllAgentTypes == <<"coordinator", "youtube", "database", "ai">>

\* the lists start_system is called with: the first agent types
AgentTypeLists == {SubSeq(AllAgentTypes, 1, n) : n \in 1..Min(MaxAgents, 4)}

\* start(), stop(), start_server() and stop_server() return, or raise (as
\* the placeholder classes under agents/ and coral_integration/ do)
CallOutcomes == {"ok", "raise"}

Range(q) == {q[i] : i \in 1..Len(q)}

\* lines 152-157: self.running = True, then start_coral_server (lines 60-75):
\* the manager is assigned before start_server is awaited
start_system ==
    /\ sys_pc = "init"
    /\ running' = TRUE
    /\ agent_types' \in AgentTypeLists
    /\ coral_server' = TRUE
    /\ \E outcome \in CallOutcomes :
         IF outcome = "ok"
         THEN /\ server_up' = TRUE /\ sys_pc' = "start_agents"
              /\ UNCHANGED <<pending_error, exit_path>>
         ELSE /\ server_up' = FALSE /\ sys_pc' = "shutdown"
              /\ pending_error' = TRUE /\ exit_path' = "server_error"
    /\ UNCHANGED <<agents, live, failed_start, stopped>>
    /\ UNCHANGED <<base, wvars, kvars>>

\* lines 108-111: self.agents[agent_type] = agent follows await agent.start()
registered_after_start(outcome) == outcome = "ok"

\* lines 102-113: one pass of the loop of start_agents
start_agent ==
    /\ sys_pc = "start_agents"
    /\ Len(agents) + Cardinality(failed_start) < Len(agent_types)
    /\ \E outcome \in CallOutcomes :
         LET a == agent_types[Len(agents) + 1]
         IN  /\ agents' = IF registered_after_start(outcome) THEN Append(agents, a)
                          ELSE agents
             /\ IF outcome = "ok"
                THEN /\ live' = live \cup {a}
                     /\ UNCHANGED <<sys_pc, failed_start, pending_error, exit_path>>
                ELSE /\ failed_start' = failed_start \cup {a}
                     /\ sys_pc' = "shutdown"
                     /\ pending_error' = TRUE /\ exit_path' = "agent_error"
                     /\ live' = live
    /\ UNCHANGED <<running, coral_server, server_up, agent_types, stopped>>
    /\ UNCHANGED <<base, wvars, kvars>>

\* lines 115 and 163-168: all agents are started and the system waits
start_agents_done ==
    /\ sys_pc = "start_agents"
    /\ Len(agents) = Len(agent_types)
    /\ sys_pc' = "running"
    /\ UNCHANGED <<running, coral_server, server_up, agent_types, agents, live,
                   failed_start, stopped, pending_error, exit_path>>
    /\ UNCHANGED <<base, wvars, kvars>>

\* lines 167-172: the wait ends because running was cleared, or by
\* KeyboardInterrupt
leave_wait ==
    /\ sys_pc = "running"
    /\ \E cause \in {"stopped", "interrupt"} :
         /\ exit_path' = cause
         /\ running' = (running /\ cause = "interrupt")
    /\ sys_pc' = "shutdown"
    /\ UNCHANGED <<coral_server, server_up, agent_types, agents, live,
                   failed_start, stopped, pending_error>>
    /\ UNCHANGED <<base, wvars, kvars>>

\* lines 176-177 and 186-192: finally: shutdown() clears running and calls
\* stop_agents
shutdown ==
    /\ sys_pc = "shutdown"
    /\ running' = FALSE
    /\ sys_pc' = "stop_agents"
    /\ stopped' = 0
    /\ UNCHANGED <<coral_server, server_up, agent_types, agents, live,
                   failed_start, pending_error, exit_path>>
    /\ UNCHANGED <<base, wvars, kvars>>

\* lines 125-139: one pass of the loop of stop_agents; an exception of
\* stop() is caught outside the loop, after which stop_agents returns
stop_agent ==
    /\ sys_pc = "stop_agents" /\ stopped < Len(agents)
    /\ \E outcome \in CallOutcomes :
         IF outcome = "ok"
         THEN /\ live' = live \ {agents[stopped + 1]}
              /\ stopped' = stopped + 1
              /\ sys_pc' = sys_pc
         ELSE /\ live' = live
              /\ stopped' = stopped
              /\ sys_pc' = "stop_server"
    /\ UNCHANGED <<running, coral_server, server_up, agent_types, agents,
                   failed_start, pending_error, exit_path>>
    /\ UNCHANGED <<base, wvars, kvars>>

\* lines 134-135: self.agents.clear() after the loop
stop_agents_done ==
    /\ sys_pc = "stop_agents" /\ stopped = Len(agents)
    /\ agents' = <<>>
    /\ sys_pc' = "stop_server"
    /\ UNCHANGED <<running, coral_server, server_up, agent_types, live,
                   failed_start, stopped, pending_error, exit_path>>
    /\ UNCHANGED <<base, wvars, kvars>>

\* lines 141-150 and 173-177: stop_server is awaited when the manager is
\* set, its exception is logged; then start_system returns or re-raises
stop_coral_server ==
    /\ sys_pc = "stop_server"
    /\ \E outcome \in CallOutcomes :
         server_up' = (server_up /\ ~(coral_server /\ outcome = "ok"))
    /\ sys_pc' = IF pending_error THEN "raised" ELSE "returned"
    /\ UNCHANGED <<running, coral_server, agent_types, agents, live,
                   failed_start, stopped, pending_error, exit_path>>
    /\ UNCHANGED <<base, wvars, kvars>>

\* lines 43-47: __init__
ZInit ==
    /\ sys_pc = "init" /\ running = FALSE /\ coral_server = FALSE
    /\ server_up = FALSE /\ agent_types = <<>> /\ agents = <<>>
    /\ live = {} /\ failed_start = {} /\ stopped = 0
    /\ pending_error = FALSE /\ exit_path = "none"

\* =================================== coral_integration/mcp_client.py
\* _create_agent returns, or raises
CreateOutcomes == {"ok", "raise"}

\* lines 107-138: _initialize_mcp succeeds when _create_agent does (with no
\* tools available it creates the agent with an empty tool list);
\* _initialize_direct_tools raises ImportError without the tools
path_ok(path, tools_available, create) ==
    IF path = "mcp" THEN create = "ok"
    ELSE tools_available /\ create = "ok"

\* variant: the error of the first path is raised without a fallback
try_fallback_never(first_ok) == FALSE

\* lines 95-105: the except block of initialize
try_fallback(first_ok) == ~first_ok

\* lines 83-105: initialize()
initialize_client(mcp_available, tools_available, create1, create2) ==
    LET first == IF mcp_available THEN "mcp" ELSE "direct"
        first_ok == path_ok(first, tools_available, create1)
        second_ok == path_ok("direct", tools_available, create2)
    IN  IF first_ok
        THEN [status |-> "initialized", executor |-> TRUE, raised |-> FALSE,
              tried |-> <<first>>]
        ELSE IF ~try_fallback(first_ok)
        THEN [status |-> "not_initialized", executor |-> FALSE, raised |-> TRUE,
              tried |-> <<first>>]
        ELSE IF second_ok
        THEN [status |-> "initialized_fallback", executor |-> TRUE,
              raised |-> FALSE, tried |-> <<first, "direct">>]
        ELSE [status |-> "error", executor |-> FALSE, raised |-> TRUE,
              tried |-> <<first, "direct">>]

\* =================================== angus_openai_wrapper.py
MaxMessages == 2
MaxRequests == 2

Roles == {"user", "assistant"}
Contents == {"", "a", "b"}
Message == [role : Roles, content : Contents]
MessageLists == UNION {[1..n -> Message] : n \in 0..MaxMessages}

NoResponse == [endpoint |-> "none", code |-> 0, status |-> "none", task |-> "none"]

\* lines 32-63: lifespan up to the yield.  create_angus_mcp_client constructs
\* the client and awaits initialize(); every exception leaves mcp_client None
lifespan ==
    /\ app_pc = "down"
    /\ \E wrapper_mcp, mcp_available, tools_available \in BOOLEAN,
          create1, create2 \in CreateOutcomes, tools \in {"ok", "raise"} :
         LET r == initialize_client(mcp_available, tools_available, create1, create2)
         IN  /\ flags' = [wrapper |-> wrapper_mcp, mcp |-> mcp_available,
                          tools |-> tools_available]
             /\ IF wrapper_mcp
                THEN /\ client' = [status |-> r.status, executor |-> r.executor]
                     /\ init' = [ret |-> IF r.raised THEN "raised" ELSE "returned",
                                 tried |-> r.tried]
                     /\ mcp_client' = (~r.raised /\ tools = "ok")
                ELSE UNCHANGED <<client, init, mcp_client>>
    /\ app_pc' = "serving"
    /\ UNCHANGED <<requests, request, response, tasks>>
    /\ UNCHANGED <<base, svars, kvars>>

\* lines 118-134: the "status" entry of the dictionary /health returns;
\* status.update(mcp_client.get_status()) replaces it by the client's status
health_status(client_set, client_status) ==
    IF client_set THEN client_status ELSE "unhealthy"

health_check ==
    /\ app_pc = "serving" /\ requests < MaxRequests
    /\ response' = [endpoint |-> "health", code |-> 200,
                    status |-> health_status(mcp_client, client.status),
                    task |-> "none"]
    /\ requests' = requests + 1
    /\ UNCHANGED <<app_pc, flags, mcp_client, client, init, request, tasks>>
    /\ UNCHANGED <<base, svars, kvars>>

Max(S) == CHOOSE m \in S : \A k \in S : k <= m

\* lines 193-198: the content of the last message with role "user", or None
user_message(messages) ==
    LET users == {i \in 1..Len(messages) : messages[i].role = "user"}
    IN  IF users = {} THEN "None" ELSE messages[Max(users)].content

\* lines 248-259: except Exception catches the HTTPException raised inside
\* the try block as well and raises HTTPException(500) in its place
raised_in_try(code) == 500

\* lines 164-259: the status code of the response and the task executed
chat_completions(client_set, messages) ==
    IF ~client_set THEN [code |-> 503, task |-> "none"]
    ELSE IF messages = <<>> THEN [code |-> raised_in_try(400), task |-> "none"]
    ELSE IF user_message(messages) \in {"None", ""}
    THEN [code |-> raised_in_try(400), task |-> "none"]
    ELSE [code |-> 200, task |-> user_message(messages)]

chat_completions_call ==
    /\ app_pc = "serving" /\ requests < MaxRequests
    /\ \E messages \in MessageLists :
         LET r == chat_completions(mcp_client, messages)
         IN  /\ request' = messages
             /\ response' = [endpoint |-> "chat", code |-> r.code,
                             status |-> "none", task |-> r.task]
             /\ tasks' = IF r.task = "none" THEN tasks ELSE tasks + 1
    /\ requests' = requests + 1
    /\ UNCHANGED <<app_pc, flags, mcp_client, client, init>>
    /\ UNCHANGED <<base, svars, kvars>>

\* lines 59-63: after the yield the client is closed
lifespan_shutdown ==
    /\ app_pc = "serving"
    /\ app_pc' = "closed"
    /\ client' = IF mcp_client THEN [client EXCEPT !.status = "closed"] ELSE client
    /\ UNCHANGED <<flags, mcp_client, init, requests, request, response, tasks>>
    /\ UNCHANGED <<base, svars, kvars>>

WInit ==
    /\ app_pc = "down"
    /\ flags = [wrapper |-> FALSE, mcp |-> FALSE, tools |-> FALSE]
    /\ mcp_client = FALSE
    /\ client = [status |-> "not_initialized", executor |-> FALSE]
    /\ init = [ret |-> "none", tried |-> <<>>]
    /\ requests = 0 /\ request = <<>> /\ response = NoResponse /\ tasks = 0

\* =================================== 1_langchain_angus_agent.py: main()
MaxCoralTools == 2
MaxInvocations == 6
\* lines 392-396: angus_tools
AngusTools == 3

\* lines 368-410: the client is made, the Coral tools are asked for (an
\* exception leaves coral_tools empty) and the agent is created; an
\* exception of the first or the last step is re-raised
coraliser_start ==
    /\ agent_pc = "start"
    /\ \E made, got, created \in {"ok", "raise"}, tools \in 0..MaxCoralTools :
         LET n == IF got = "raise" THEN 0 ELSE tools
         IN  IF made = "raise"
             THEN /\ agent_pc' = "raised"
                  /\ UNCHANGED <<coral_tools, all_tools>>
             ELSE /\ coral_tools' = [failed |-> got = "raise", n |-> n]
                  /\ all_tools' = n + AngusTools
                  /\ agent_pc' = IF created = "ok" THEN "loop" ELSE "raised"
    /\ UNCHANGED <<invocations, last_invocation>>
    /\ UNCHANGED <<base, svars, wvars>>

\* variant: an exception of ainvoke leaves the loop
after_invocation_raise(outcome) == IF outcome = "raise" THEN "raised" ELSE "sleep"

\* lines 412-421: both branches sleep and the loop goes on
after_invocation(outcome) == "sleep"

\* lines 414-416: one agent invocation
invoke_agent ==
    /\ agent_pc = "loop"
    /\ \E outcome \in {"ok", "raise"} :
         /\ last_invocation' = outcome
         /\ agent_pc' = after_invocation(outcome)
    /\ invocations' = Min(invocations + 1, MaxInvocations)
    /\ UNCHANGED <<coral_tools, all_tools>>
    /\ UNCHANGED <<base, svars, wvars>>

\* lines 417 and 420: asyncio.sleep(1) or asyncio.sleep(5) returns
invocation_sleep_done ==
    /\ agent_pc = "sleep"
    /\ agent_pc' = "loop"
    /\ UNCHANGED <<coral_tools, all_tools, invocations, last_invocation>>
    /\ UNCHANGED <<base, svars, wvars>>

KInit ==
    /\ agent_pc = "start"
    /\ coral_tools = [failed |-> FALSE, n |-> 0]
    /\ all_tools = 0 /\ invocations = 0 /\ last_invocation = "none"

vars == <<uvars, cvars, xvars>>
Init == UInit /\ CInit /\ TInit /\ AInit /\ LInit /\ NInit /\ ZInit /\ WInit /\ KInit

\* the upload workflows
Next ==
    \/ AngusYouTubeUploadTool_start
    \/ AngusYouTubeUploadTool_iter
    \/ AngusYouTubeUploadTool_return
    \/ upload_workflow_start
    \/ upload_workflow_iter
    \/ upload_workflow_return

Spec == Init /\ [][Next]_vars

\* the comment workflows
CommentNext ==
    \/ process_video_comments_call
    \/ process_comment
    \/ process_video_comments_return
    \/ comment_processing_workflow_start
    \/ comment_processing_workflow_iter
    \/ comment_processing_workflow_return
    \/ AngusCommentProcessingTool

CommentSpec == Init /\ [][CommentNext]_vars

\* analyze_comment_sentiment applied to every comment text
SentimentInit ==
    /\ UInit /\ CInit /\ AInit /\ LInit /\ NInit /\ ZInit /\ WInit /\ KInit
    /\ comment_text \in CommentTexts
    /\ sentiment_result = NoSentiment
    /\ song_data = [styleIsStr |-> TRUE, style |-> <<>>, title |-> "plain"]
    /\ tags_result = NoTags

SentimentNext ==
    \/ analyze_comment_sentiment_call

SentimentSpec == SentimentInit /\ [][SentimentNext]_vars

\* suggest_video_tags applied to every song
TagInit ==
    /\ UInit /\ CInit /\ AInit /\ LInit /\ NInit /\ ZInit /\ WInit /\ KInit
    /\ comment_text = [isStr |-> TRUE, words |-> {}]
    /\ sentiment_result = NoSentiment
    /\ song_data \in SongData
    /\ tags_result = NoTags

TagNext ==
    \/ suggest_video_tags_call

TagSpec == TagInit /\ [][TagNext]_vars

\* the workflow calls of AngusLangChainAgent
AgentNext ==
    \/ initialize
    \/ run_song_upload_workflow
    \/ run_comment_processing_workflow
    \/ run_both_workflows_upload
    \/ run_both_workflows_comment

AgentSpec == Init /\ [][AgentNext]_vars

\* main_loop of AngusLangChainAgent
run_loop ==
    \/ main_loop
    \/ initial_workflows_done
    \/ read_time
    \/ upload_check
    \/ upload_done
    \/ comment_check
    \/ comment_done
    \/ sleep_done

MainLoopNext ==
    \/ run_loop
    \/ tick
    \/ interrupt

MainLoopSpec == Init /\ [][MainLoopNext]_vars

\* the OpenAI-compatible wrapper and its MCP client
WrapperNext ==
    \/ lifespan
    \/ health_check
    \/ chat_completions_call
    \/ lifespan_shutdown

WrapperSpec == Init /\ [][WrapperNext]_vars

\* main() of 1_langchain_angus_agent.py
CoraliserNext ==
    \/ coraliser_start
    \/ invoke_agent
    \/ invocation_sleep_done

CoraliserSpec == Init /\ [][CoraliserNext]_vars /\ WF_vars(CoraliserNext)

\* AgentAngusSystem
SystemNext ==
    \/ start_system
    \/ start_agent
    \/ start_agents_done
    \/ leave_wait
    \/ shutdown
    \/ stop_agent
    \/ stop_agents_done
    \/ stop_coral_server

SystemSpec == Init /\ [][SystemNext]_vars

\* main() of an agent
MainNext ==
    \/ connect
    \/ command
    \/ retry_connection

MainSpec == Init /\ [][MainNext]_vars

\* the loop's steps are taken when they can be, and the clock advances
FairMainLoopSpec == MainLoopSpec /\ WF_vars(run_loop) /\ WF_vars(tick)

\* ============================================================ properties
\* the upload workflow call has returned after running its loop
Done == pc = "idle" /\ ret = "completed"

Iterations == 1..Len(log)

\* the status the k-th iteration leaves its song in
OwnOutcome(k) == IF log[k].committed THEN log[k].write ELSE "pending"

\* C1: at most one reply_to_youtube_comment call is ever issued for a comment,
\* over any number of comment-workflow runs and any outcomes of the calls.
C1_AtMostOneReply == \A c \in Comments : replyCalls[c] <= 1

\* C2: over any number of upload-workflow runs a song is uploaded (upload_video
\* returns a video ID) at most once, whatever update_song_status does afterwards.
C2_AtMostOnceUpload == \A s \in Songs : okUploads[s] <= 1

C4_StatusInvariant ==
    pc = "idle" => \A s \in Songs : (videoId[s] # 0) <=> (status[s] = "uploaded")

\* a run has ended with an uploaded song and a failed one
C4_Witness ==
    /\ Done
    /\ \E s, u \in Songs : /\ status[s] = "uploaded" /\ videoId[s] # 0
                          /\ status[u] = "failed" /\ videoId[u] = 0

C7_OthersReachTerminal ==
    (Done /\ tool = "AngusYouTubeUploadTool")
        => \A j \in Iterations :
             log[j].up \in {"none", "raise"}
                => /\ Len(log) = Len(songs)
                   /\ \A k \in Iterations \ {j} :
                        /\ log[k].up # "not_called"
                        /\ status[songs[k]] \in {"uploaded", "failed"}

\* C7 as amended: a generic failure of one song leaves the others alone: the
\* loop runs an iteration and appends one outcome line for every song of the
\* batch, and each other song ends in the status its own iteration produced.
C7_FailureIsolated ==
    (Done /\ tool = "AngusYouTubeUploadTool")
        => \A j \in Iterations :
             log[j].up \in {"none", "raise"}
                => /\ Len(log) = Len(songs)
                   /\ \A k \in Iterations : log[k].line \in {"ok", "fail"}
                   /\ \A k \in Iterations \ {j} : status[songs[k]] = OwnOutcome(k)

\* a batch has ended in which the first upload raised and the next succeeded
C7_Witness ==
    /\ Done /\ tool = "AngusYouTubeUploadTool"
    /\ Len(log) >= 2
    /\ log[1].up = "raise" /\ log[2].up = "id" /\ status[songs[2]] = "uploaded"

\* C8: every attempted upload that fails for a reason other than the upload
\* limit or an expired URL, by returning no video ID or by raising, has the
\* status "failed" written for its song.
C8_GenericFailureMarksFailed ==
    \A k \in Iterations : log[k].up \in {"none", "raise"} => log[k].write = "failed"

\* C9: once a song is "uploaded", "failed" or "url_expired", no step of any
\* later run calls upload_video for it or changes its status.
C9_TerminalFinal ==
    [][\A s \in Songs :
         status[s] \in Terminal
            => status'[s] = status[s] /\ uploadCalls'[s] = uploadCalls[s]]_vars

\* a later run has worked through a batch while an earlier song was terminal
C9_Witness ==
    /\ runs >= 2 /\ Done /\ Len(log) >= 1
    /\ \E s \in Songs :
         /\ status[s] \in Terminal /\ uploadCalls[s] = 1
         /\ \A k \in 1..Len(songs) : songs[k] # s

\* C10: when upload_video reports an expired URL the status "url_expired" is
\* written without a video ID (the song has it once the write succeeds), and
\* the batch goes on to the next song.
C10_UrlExpired ==
    \A k \in Iterations :
        log[k].up = "URL_EXPIRED" =>
            /\ log[k].write = "url_expired"
            /\ status[songs[k]] = OwnOutcome(k)
            /\ videoId[songs[k]] = 0
            /\ pc = "idle" => Len(log) = Len(songs)

\* a song is "url_expired" and the iteration of the next song has run
C10_Witness ==
    \E k \in Iterations :
        /\ log[k].up = "URL_EXPIRED" /\ status[songs[k]] = "url_expired"
        /\ k < Len(log)

\* C11: a call of an upload workflow made when no song is pending, the store
\* answering, makes no upload or status call and returns the "nothing to do"
\* summary, which is not a failure report.
C11_EmptyBatch ==
    [][(/\ runs' = runs + 1
        /\ \A s \in Songs : ~IsPending(s)
        /\ ret' \notin {"tool_error", "workflow_failed"})
           => /\ ret' = "nothing"
              /\ UNCHANGED <<status, videoId, uploadCalls, okUploads>>]_vars

\* C12: in one run of the comment workflow with limit N the number of replies
\* posted, over all videos of the run, never exceeds N.
C12_GlobalReplyBudget ==
    /\ last.tool = "comment_processing_workflow" => last.newReplies <= last.arg[1]
    /\ last.tool = "process_video_comments" => last.newReplies <= last.arg[2]
    /\ last.tool = "AngusCommentProcessingTool" => last.newReplies <= last.arg[1]

\* C13: the counter compared against the reply limit goes up by one in a step
\* of the comment loop exactly when that step's reply call posted a reply; a
\* skipped comment or a failed reply call leaves it alone.
C13_CounterCountsSuccesses ==
    [][(cpc = "comments" /\ cpc' = "comments")
          => \/ /\ frame'.count = frame.count
                /\ hasOurReply' = hasOurReply
             \/ /\ frame'.count = frame.count + 1
                /\ \E c \in Comments :
                     /\ c \notin hasOurReply
                     /\ hasOurReply' = hasOurReply \cup {c}
                     /\ replyCalls'[c] = replyCalls[c] + 1]_vars

\* one call has counted one reply and made a reply call that failed
C13_Witness ==
    /\ cpc = "comments" /\ frame.count = 1 /\ frame.k = 3
    /\ \E c \in Comments :
         c[1] = frame.video /\ replyCalls[c] = 1 /\ c \notin hasOurReply

\* C14: every step that makes a reply call for a comment, whether the call
\* posts the reply or fails, saves the comment's Feedback record.
C14_FeedbackRegardlessOfReply ==
    [][\A c \in Comments :
         replyCalls'[c] # replyCalls[c]
            => /\ <<frame.key, c>> \notin feedback
               /\ <<frame.key, c>> \in feedback']_vars

\* a comment whose reply call failed and one whose reply was posted both have
\* their record
C14_Witness ==
    \E c, d \in Comments, kc, kd \in {r[1] : r \in feedback} :
        /\ <<kc, c>> \in feedback /\ replyCalls[c] = 1 /\ c \notin hasOurReply
        /\ <<kd, d>> \in feedback /\ replyCalls[d] = 1 /\ d \in hasOurReply

\* C15: no reply call is made for a comment whose response generation failed.
C15_NoReplyOnGenerationFailure == ~last.errorReply

\* C16: a comment that already has a Feedback record, or that carries a reply
\* of ours, is skipped: no step saves a record for it or makes a reply call
\* for it.
C16_GuardsSkip ==
    [][\A c \in Comments :
         ((\E r \in feedback : r[2] = c) \/ c \in hasOurReply)
            => /\ replyCalls'[c] = replyCalls[c]
               /\ \A r \in feedback' \ feedback : r[2] # c]_vars

\* C17: an iteration of AngusYouTubeUploadTool whose metadata step failed or
\* raised still goes on to the upload of its song.
C17_MetadataNeverBlocks ==
    \A k \in Iterations :
        log[k].meta = "raise" => log[k].up # "not_called" \/ log[k].write # "none"

\* C18: the label analyze_comment_sentiment produces is positive, negative or
\* neutral, and for an analysis that failed it is neutral with confidence 0.5.
C18_SentimentLabel ==
    sentiment_result # NoSentiment
        => /\ sentiment_result.sentiment \in {"positive", "negative", "neutral"}
           /\ ~comment_text.isStr
                => /\ sentiment_result.sentiment = "neutral"
                   /\ sentiment_result.confidence = 50

\* the position of the first occurrence of x in the sequence s
FirstSeen(s, x) == CHOOSE i \in 1..Len(s) : s[i] = x /\ \A j \in 1..(i - 1) : s[j] # x

\* the tags of a song in the order the function collects them
Collected(data) ==
    (IF data.styleIsStr THEN style_tags(data.style) ELSE <<>>)
    \o generic_tags \o ai_tags(data.title)

InFirstSeenOrder(r, all) ==
    /\ \A i \in 1..Len(r) : \E j \in 1..Len(all) : all[j] = r[i]
    /\ \A i, j \in 1..Len(r) : i < j => FirstSeen(all, r[i]) < FirstSeen(all, r[j])

\* C19 as stated: for every song data the tags returned are at most 10, hold
\* no tag twice, and come in the order in which the style tags, the generic
\* tags and the AI tags are first seen.
C19_TagsFirstSeen ==
    tags_result.done
        => /\ Len(tags_result.tags) <= 10
           /\ InFirstSeenOrder(tags_result.tags, Collected(song_data))

\* C19 as amended: the tags returned are at most 10 and hold no tag twice for
\* every song data.  When the style and the title are readable they are the
\* first 10 distinct tags of style tags, generic tags, AI tags, in first-seen
\* order; otherwise they are the fallback music, song.
C19_TagCap ==
    tags_result.done
        => LET r == tags_result.tags
               all == Collected(song_data)
           IN  /\ Len(r) <= 10
               /\ \A i, j \in 1..Len(r) : i # j => r[i] # r[j]
               /\ ~tags_raises(song_data)
                    => /\ InFirstSeenOrder(r, all)
                       /\ Len(r) = Min(10, Cardinality({all[k] : k \in 1..Len(all)}))
                       /\ \A k \in 1..Len(all), i \in 1..Len(r) :
                            FirstSeen(all, all[k]) < FirstSeen(all, r[i])
                               => \E m \in 1..Len(r) : r[m] = all[k]
               /\ tags_raises(song_data) => r = <<"music", "song">>

\* a song with more than 10 distinct tags, one of them repeated, got 10
C19_Witness ==
    /\ tags_result.done /\ ~tags_raises(song_data)
    /\ Len(tags_result.tags) = 10
    /\ Len(Collected(song_data)) > 11
    /\ Cardinality({Collected(song_data)[k] : k \in 1..Len(Collected(song_data))}) > 10
    /\ \E i, j \in 1..Len(song_data.style) :
         i # j /\ strip(song_data.style[i]) = strip(song_data.style[j])
               /\ strip(song_data.style[i]) # ""

\* C20: every workflow call of the agent returns a result, and the status of
\* the result is a failure status when the task execution failed.
C20_FailureStatus ==
    \A i \in 1..Len(results) :
        results[i].text \in {"Task execution failed", "Agent not initialized"}
            => results[i].status # "completed"

\* C21: a workflow call whose fetch of the pending songs fails ends at once:
\* it runs no loop iteration and makes no upload and no status write, and
\* nothing more happens until the next call.
C21_FetchFailureStopsBatch ==
    [][/\ (runs' = runs + 1 /\ ret' \in {"tool_error", "workflow_failed"})
           => /\ pc' = "idle" /\ log' = <<>>
              /\ UNCHANGED <<status, videoId, uploadCalls, okUploads>>
       /\ ret \in {"tool_error", "workflow_failed"} => runs' = runs + 1]_vars

\* a second call failed to fetch after the first had uploaded a song
C21_Witness ==
    /\ ret \in {"tool_error", "workflow_failed"} /\ pc = "idle" /\ runs = 2
    /\ \E s, u \in Songs : status[s] = "uploaded" /\ status[u] = "pending"

\* C21, comment side: a comment-workflow call whose fetch of the uploaded
\* videos fails ends at once, with no feedback stored and no reply call made.
C21_VideoFetchFailureStopsBatch ==
    [][(cruns' = cruns + 1 /\ last'.result = -1)
          => /\ cpc' = "idle"
             /\ UNCHANGED <<feedback, hasOurReply, replyCalls>>]_vars

\* the number of uploads the summary of the run reports: the outcome lines
\* that report an upload, or uploaded_count
ReportedUploads == Cardinality({k \in Iterations : log[k].line = "ok"})

\* C22: the number of songs the summary of a run reports as uploaded is the
\* number of songs whose status became "uploaded" in that run.
C22_SummaryAgreesWithStore ==
    Done => ReportedUploads
              = Cardinality({k \in Iterations :
                               log[k].committed /\ log[k].write = "uploaded"})

\* C23: a run of the upload workflow with limit N works on at most N songs,
\* all different and in the order they were fetched; each loop iteration
\* makes at most one upload_video call, for the next song of the batch, so
\* the run makes at most N upload attempts.
C23_BatchLimit ==
    /\ [](pc = "loop"
            => /\ Len(songs) <= batchLimit
               /\ Len(log) <= Len(songs)
               /\ \A i, j \in 1..Len(songs) :
                    i < j => FirstSeen(SongOrder, songs[i]) < FirstSeen(SongOrder, songs[j])
               /\ Cardinality({k \in Iterations : log[k].up # "not_called"})
                    <= batchLimit)
    /\ [][\A s \in Songs :
            uploadCalls'[s] # uploadCalls[s]
               => /\ pc = "loop" /\ Len(log') = Len(log) + 1
                  /\ s = songs[Len(log') ]
                  /\ uploadCalls'[s] = uploadCalls[s] + 1
                  /\ \A u \in Songs \ {s} : uploadCalls'[u] = uploadCalls[u]]_vars

\* a run with limit 2 is about to end, having made two upload attempts
C23_Witness ==
    /\ pc = "loop" /\ batchLimit = 2 /\ Len(log) = 2
    /\ \A k \in Iterations : log[k].up # "not_called"

RunLimit == IF frame.caller = "workflow" THEN last.arg[1] ELSE frame.max

\* C25 (as stated): the comments fetched for a video are at most
\* min(remaining reply budget, page size), hence at most the limit of the run
C25_FetchWithinBudget ==
    cpc = "comments" => frame.n <= RunLimit

\* C25 (amended): process_video_comments requests 100 comments for every
\* video, whatever its reply budget is, and loops over all the comments the
\* fetch returned; the tool class requests min(comment_limit, 10) comments
C25_FetchSize ==
    /\ cpc = "comments"
         => frame.requested = FetchMax /\ frame.n = Min(FetchMax, NumComments)
    /\ (last.tool = "AngusCommentProcessingTool" /\ last.result = 0)
         => last.requested = Min(last.arg[1], ToolPageSize)

\* a call with a budget of one reply looks at the second fetched comment
C25_Witness ==
    /\ cpc = "comments" /\ frame.caller = "tool" /\ frame.max = 1
    /\ frame.n = 2 /\ frame.k = 2 /\ frame.count = 0

\* C26: an upload_video call that fails with a transient error (an exception
\* such as a timeout or a connection error) is repeated, so an iteration that
\* ends with that failure has made three attempts for its song
C26_TransientRetried ==
    [][(pc = "loop" /\ Len(log') = Len(log) + 1 /\ log'[Len(log')].up = "raise")
          => LET s == current_song(log, songs)
             IN  uploadCalls'[s] = uploadCalls[s] + 3]_vars

\* C27: in the loop the upload workflow is started in exactly the iterations
\* in which at least upload_interval seconds lie between last_upload_time and
\* the iteration's current_time, the comment workflow likewise with
\* comment_interval, the time of a scheduled run is the current_time of its
\* iteration, and (unless the loop is interrupted) each workflow is started
\* again and again
C27_Schedule ==
    /\ [][/\ loop_pc = "upload_check"
               => (loop_pc' = "upload_run" <=> upload_elapsed >= upload_interval)
          /\ loop_pc = "comment_check"
               => (loop_pc' = "comment_run" <=> comment_elapsed >= comment_interval)
          /\ loop_pc' = "upload_run" => loop_pc \in {"upload_check", "upload_run"}
          /\ loop_pc' = "comment_run" => loop_pc \in {"comment_check", "comment_run"}
          /\ (loop_pc = "upload_run" /\ loop_pc' # "upload_run")
               => loop_pc' = "interrupted" \/ last_upload_age' = current_age
          /\ (loop_pc = "comment_run" /\ loop_pc' # "comment_run")
               => loop_pc' = "interrupted" \/ last_comment_age' = current_age]_vars
    /\ \/ <>(loop_pc = "interrupted")
       \/ ([]<>(loop_pc = "upload_run") /\ []<>(loop_pc = "comment_run"))

\* an upload run is started in an iteration that follows one which passed it
\* over and ran the comment workflow only
C27_Witness ==
    /\ loop_pc = "upload_run"
    /\ upload_interval > SleepTime
    /\ upload_elapsed >= upload_interval
    /\ last_comment_age < last_upload_age

\* C28: once the user has entered 'quit', main() opens no further connection
\* and ends
C28_QuitExits ==
    [][quit_entered => connect_calls' = connect_calls /\ ~connected']_vars

\* C29: main() opens at most max_retries connections; a failed attempt other
\* than the last is followed by the wait and then by the next attempt; the
\* error is re-raised only by the last attempt, and max_retries failures in a
\* row always end in the re-raised error
C29_RetryBound ==
    /\ [](/\ connect_calls <= max_retries
          /\ main_pc = "raised" => attempt = max_retries - 1 /\ failures >= 1
          /\ failures = max_retries => main_pc = "raised"
          /\ main_pc = "wait" => failures >= 1 /\ attempt < max_retries - 1)
    /\ [][/\ failures' > failures => main_pc' \in {"wait", "raised"}
          /\ (connect_calls' # connect_calls /\ failures >= 1)
               => main_pc = "connect" /\ attempt >= 1
          /\ main_pc = "wait" => main_pc' = "connect" /\ attempt' = attempt + 1
          /\ main_pc = "raised" => UNCHANGED nvars]_vars

\* three attempts in a row have failed and the error is re-raised
C29_Witness ==
    main_pc = "raised" /\ failures = 3 /\ connect_calls = 3

\* C30: a command whose handling raises an error leaves main() at the prompt
\* of the same connection, and the attempt counter and the number of
\* connections are unchanged
C30_CommandErrorStaysInLoop ==
    [][(commands' = commands + 1 /\ last_command'.result = "error")
          => /\ main_pc' = "prompt"
             /\ connected /\ connected'
             /\ attempt' = attempt
             /\ connect_calls' = connect_calls
             /\ failures' = failures]_vars

\* 'upload x' has been reported, and the next line is read on the first
\* connection
C30_Witness ==
    /\ last_command = [input |-> "upload x", result |-> "error"]
    /\ main_pc = "prompt" /\ connected /\ attempt = 0 /\ connect_calls = 1
    /\ commands = 2

\* C31: while run_both_workflows waits for the comment workflow the upload
\* workflow has returned and the comment workflow has not; on return
\* overall_status is "completed" iff both results are "completed",
\* "partial_success" iff exactly one is, "failed" iff neither is, and never
\* "running"
C31_OverallStatus ==
    /\ both.pc = "upload_done"
         => /\ both.upload_workflow # "None" /\ both.comment_workflow = "None"
            /\ both.overall_status = "running"
    /\ both.pc = "returned"
         => LET u == both.upload_workflow = "completed"
                c == both.comment_workflow = "completed"
            IN  /\ both.overall_status = "completed" <=> (u /\ c)
                /\ both.overall_status = "partial_success" <=> (u # c)
                /\ both.overall_status = "failed" <=> (~u /\ ~c)
                /\ both.overall_status # "running"

\* the upload workflow failed for want of an executor, the comment workflow
\* completed
C31_Witness ==
    /\ both.pc = "returned" /\ both.upload_workflow = "error"
    /\ both.comment_workflow = "completed"
    /\ both.overall_status = "partial_success"

\* C32: a call of upload_song_to_youtube that cannot retrieve the song's data,
\* or finds no video URL in it, makes no upload_video call and no status write
C32_PreconditionsLeaveSong ==
    [][(Len(log') = Len(log) + 1 /\ lastDetails' \in {"error", "no_url"})
          => /\ log'[Len(log')].up = "not_called"
             /\ log'[Len(log')].write = "none"
             /\ UNCHANGED <<status, videoId, uploadCalls, okUploads>>]_vars

\* the second song of a batch had no video URL and is still pending, after
\* the first one was uploaded
C32_Witness ==
    /\ Len(log) = 2 /\ log[1].up = "id" /\ lastDetails = "no_url"
    /\ status[songs[1]] = "uploaded" /\ status[songs[2]] = "pending"
    /\ uploadCalls[songs[2]] = 0

C35_Initialization ==
    (app_pc = "serving" /\ flags.wrapper) =>
        /\ init.ret = "returned" =>
               /\ client.status \in {"initialized", "initialized_fallback"}
               /\ client.executor
        /\ client.status # "initialized" => init.tried = <<init.tried[1], "direct">>
        /\ init.ret = "raised" <=> client.status = "error"
        /\ client.status = "error" => ~client.executor

C35_Witness ==
    /\ app_pc = "serving" /\ init.ret = "returned"
    /\ client.status = "initialized_fallback" /\ client.executor
    /\ init.tried = <<"mcp", "direct">>

\* C36: with the client set, chat_completions answers a request whose message
\* list is empty or holds no message of role 'user' with HTTP 400 and executes
\* no task; otherwise the task is the content of the last 'user' message.
C36_Validation ==
    (response.endpoint = "chat" /\ mcp_client) =>
        IF request = <<>> \/ \A i \in 1..Len(request) : request[i].role # "user"
        THEN response.code = 400 /\ response.task = "none"
        ELSE response.task = user_message(request)

\* C37: when the client cannot be initialised the server starts with
\* mcp_client unset; /health reports 'healthy' exactly when mcp_client is set;
\* chat_completions answers 503 and executes no task while it is unset.
C37_Availability ==
    /\ init.ret = "raised" => ~mcp_client
    /\ response.endpoint = "health" => (response.status = "healthy" <=> mcp_client)
    /\ (response.endpoint = "chat" /\ ~mcp_client) =>
           response.code = 503 /\ response.task = "none"

\* C38: a failure to obtain the Coral tools does not stop the startup, which
\* goes on with the three Angus tools alone; an exception of one agent
\* invocation never ends the main loop, which starts another invocation.
C38_KeepsRunning ==
    /\ [](coral_tools.failed => all_tools = AngusTools)
    /\ [][(agent_pc = "loop" /\ last_invocation' = "raise") => agent_pc' = "sleep"]_vars
    /\ ((agent_pc = "sleep" /\ last_invocation = "raise") ~> (agent_pc = "loop"))

C38_Witness ==
    /\ agent_pc = "loop" /\ coral_tools.failed /\ all_tools = AngusTools
    /\ last_invocation = "raise" /\ invocations >= 2

\* C39: analyze_comment_sentiment returns 'positive' exactly when more
\* positive than negative keywords are matched, 'negative' exactly when fewer
\* are, 'neutral' exactly when as many are; the confidence is 0.5 for neutral
\* and min(0.9, 0.5 + 0.1 * |difference|) otherwise, so it lies in [0.5, 0.9].
C39_KeywordSentiment ==
    sentiment_result # NoSentiment =>
        LET positive_count == Cardinality(comment_text.words \cap positive_words)
            negative_count == Cardinality(comment_text.words \cap negative_words)
            difference == IF positive_count > negative_count
                          THEN positive_count - negative_count
                          ELSE negative_count - positive_count
        IN  /\ sentiment_result.sentiment = "positive" <=> positive_count > negative_count
            /\ sentiment_result.sentiment = "negative" <=> positive_count < negative_count
            /\ sentiment_result.sentiment = "neutral" <=> positive_count = negative_count
            /\ sentiment_result.confidence =
                   IF difference = 0 THEN 50 ELSE Min(90, 50 + 10 * difference)
            /\ sentiment_result.confidence \in 50..90

====
